---- MODULE Spec2Model ----
(***************************************************************************)
(* Model of lib/aochat/__init__.py: the Anarchy Online chat client.        *)
(* One Chat object, its caller and the server at the other end of the      *)
(* socket.  Every blocking socket operation (recv in wait_packet, poll in  *)
(* start) is a position of the client; the packet the server delivers      *)
(* there, and the outcome of the socket call, are chosen by the action     *)
(* that leaves the position.                                               *)
(***************************************************************************)
EXTENDS Integers, Sequences, FiniteSets, TLC

(* ---------------- bounds of the model ---------------- *)

\* packets the client may write before the caller stops issuing calls
MaxSent == 3
\* handler invocations recorded before the event loop stops being fed
MaxHandled == 2
\* character ids the caller may ask for
MaxCharId == 3

(* ---------------- packet types (imports, lines 14-77) ---------------- *)

AOSP_SEED == "AOSP_SEED"
AOSP_LOGIN_OK == "AOSP_LOGIN_OK"
AOSP_AUTH_ERROR == "AOSP_AUTH_ERROR"
AOSP_CHARACTERS_LIST == "AOSP_CHARACTERS_LIST"
AOSP_PRIVATE_MESSAGE == "AOSP_PRIVATE_MESSAGE"
AOSP_PING == "AOSP_PING"
AOCP_AUTH == "AOCP_AUTH"
AOCP_LOGIN == "AOCP_LOGIN"
AOCP_PING == "AOCP_PING"

\* a type id that has no entry in SERVER_PACKETS
UNREGISTERED == "UNREGISTERED"

\* the registry of server packets: the keys of the SERVER_PACKETS dictionary
SERVER_PACKETS ==
    {AOSP_SEED, AOSP_LOGIN_OK, AOSP_AUTH_ERROR, AOSP_CHARACTERS_LIST,
     AOSP_PRIVATE_MESSAGE, AOSP_PING}

\* Expect = None / Error = None in wait_packet and send_packet
NoType == "None"

(* ---------------- poll event masks (select module) ---------------- *)

POLLIN == 1
POLLERR == 8
POLLHUP == 16

\* the masks poll can return for a descriptor registered with POLLIN
PollMasks ==
    {POLLIN, POLLERR, POLLHUP, POLLIN + POLLHUP, POLLIN + POLLERR,
     POLLERR + POLLHUP, POLLIN + POLLERR + POLLHUP}

\* mask & flag # 0, for the single-bit flags above
HasFlag(mask, flag) == (mask \div flag) % 2 = 1

(* ---------------- values ---------------- *)

\* self.character = None
None == [id |-> 0, name |-> "None"]

Character(id, name) == [id |-> id, name |-> name]

\* the character lists the server may send; ids may repeat
CharLists ==
    { <<>>,
      <<Character(1, "a"), Character(2, "b")>>,
      <<Character(2, "b"), Character(1, "a"), Character(2, "c")>> }

ServerKeys == {"seed1", "seed2"}
Messages == {"Wrong password.", "Banned."}
username == "user"
password == "secret"

\* a packet as the server sends it: its type and the fields the packet
\* classes of aochat.core.packets decode from the payload
Packet(type, server_key, message, chars) ==
    [type |-> type, server_key |-> server_key, message |-> message,
     characters |-> chars]

ServerPackets ==
    { Packet(AOSP_SEED, k, "", <<>>) : k \in ServerKeys }
    \cup { Packet(AOSP_AUTH_ERROR, "", m, <<>>) : m \in Messages }
    \cup { Packet(AOSP_CHARACTERS_LIST, "", "", l) : l \in CharLists }
    \cup { Packet(t, "", "", <<>>) :
             t \in {AOSP_LOGIN_OK, AOSP_PRIVATE_MESSAGE, AOSP_PING,
                    UNREGISTERED} }

\* a packet as the client writes it
ClientPacket(type, id, key) == [type |-> type, id |-> id, key |-> key]

\* exceptions; NoError is "the call returned"
NoError == [class |-> "", message |-> ""]
ChatError(message) == [class |-> "ChatError", message |-> message]
TypeError == [class |-> "TypeError", message |-> "format"]
UnexpectedPacketError == [class |-> "UnexpectedPacket", message |-> ""]

\* outcomes of one socket call
IoOutcomes == {"ok", "broken", "error", "timeout"}

VARIABLES
    pc,          \* position of the client: which call is blocked where
    socket,      \* self.socket: "none" before create_connection, then "open"
    character,   \* self.character
    characters,  \* self.characters
    assigned,    \* number of assignments made to self.characters
    pending,     \* the local variable character of login
    sent,        \* the packets written to the socket, in order
    events,      \* the types the handler table of start has an entry for
    io_events,   \* what poll.poll returned last in the running or last call
    handled,     \* the types passed to a handler, in order, by the running call
    call,        \* the call of the caller that is running or ran last
    error,       \* the exception the last finished call raised
    recv,        \* the packet the last step read whole, NoPacket if none
    interrupted, \* a KeyboardInterrupt ended the running or last call
    state,       \* the Session state of the design (section 4.4)
    \* the event loop at the level of bytes
    frames,      \* the packets the server sends: type id and payload, in order
    rpos,        \* how many bytes of them the recv calls have returned
    wpc,         \* position of start: poll, send, head, body, handler, done
    expect,      \* Expect of the running wait_packet
    bytes,       \* the local bytes of __read_socket and __write_socket
    data,        \* the local data of __read_socket and __write_socket
    head,        \* the local head of wait_packet
    out,         \* the bytes the socket has accepted from send, in order
    packets,     \* what wait_packet read whole: type id, payload, Expect
    invoked,     \* the handler invocations: indices into packets, in order
    table,       \* the types the handler table has an entry for
    last_io,     \* the outcome of the socket call made in the last step
    raised,      \* the exception that ended start
    \* generate_login_key and _crypt
    kpc,         \* position: input, plain, crypt, done, error
    challenge,   \* the local challenge of generate_login_key
    plain,       \* the local plain
    pad,         \* the local pad
    ci,          \* the local i of _crypt: index into the 32-bit words
    crypted      \* the local crypted: hex digits

vars == <<pc, socket, character, characters, assigned, pending, sent, events,
          io_events, handled, call, error, recv, interrupted, state>>

\* the variables of the byte-level event loop and of the key exchange
wirevars == <<frames, rpos, wpc, expect, bytes, data, head, out, packets,
              invoked, table, last_io, raised>>
keyvars == <<kpc, challenge, plain, pad, ci, crypted>>

NoPacket == Packet(NoType, "", "", <<>>)

Call(op, id) == [op |-> op, id |-> id]

(* ---------------- transport (lines 199-233) ---------------- *)

\* what one recv of __read_socket raises; socket.timeout is a subclass of
\* socket.error, so the first except clause takes it and its format
\* "Socket error %d: %s" % tuple(error) fails on the one-element args
read_socket(io) ==
    CASE io = "ok" -> NoError
      [] io = "error" -> ChatError("Socket error")
      [] io = "timeout" -> TypeError
      [] io = "broken" -> ChatError("Connection broken.")

\* what one send of __write_socket raises
write_socket(io) ==
    CASE io = "ok" -> NoError
      [] io = "error" -> ChatError("Socket error")
      [] io = "timeout" -> TypeError
      [] io = "broken" -> ChatError("Connection broken.")

(* ---------------- wait_packet (lines 235-266) ---------------- *)

Returned(p) == [raise |-> "", message |-> "", packet |-> p]
UnexpectedPacket(p) ==
    [raise |-> "UnexpectedPacket", message |-> "", packet |-> p]
Raised(message) ==
    [raise |-> "ChatError", message |-> message,
     packet |-> NoPacket]

\* wait_packet with the comparison of line 247 inverted
wait_packet_inverted(p, Expect, Error) ==
    IF Expect # NoType
    THEN IF p.type = Expect
         THEN IF Error # NoType /\ p.type = Error
              THEN UnexpectedPacket(p)
              ELSE Raised("Unexpected error.")
         ELSE Returned(p)
    ELSE IF p.type \in SERVER_PACKETS
         THEN Returned(p)
         ELSE UnexpectedPacket(p)

\* wait_packet without the error packet of lines 248-252
wait_packet_no_error(p, Expect, Error) ==
    IF Expect # NoType
    THEN IF p.type # Expect
         THEN Raised("Unexpected error.")
         ELSE Returned(p)
    ELSE IF p.type \in SERVER_PACKETS
         THEN Returned(p)
         ELSE UnexpectedPacket(p)

\* wait_packet raising UnexpectedPacket for every packet of another type,
\* whether or not it is the error type
wait_packet_any_error(p, Expect, Error) ==
    IF Expect # NoType
    THEN IF p.type # Expect
         THEN UnexpectedPacket(p)
         ELSE Returned(p)
    ELSE IF p.type \in SERVER_PACKETS
         THEN Returned(p)
         ELSE UnexpectedPacket(p)

\* wait_packet without the type check of lines 245-254
wait_packet_unchecked(p, Expect, Error) ==
    IF Expect # NoType
    THEN Returned(p)
    ELSE IF p.type \in SERVER_PACKETS
         THEN Returned(p)
         ELSE UnexpectedPacket(p)

\* wait_packet letting the KeyError of line 260 end the call
wait_packet_key_error(p, Expect, Error) ==
    IF Expect # NoType
    THEN IF p.type # Expect
         THEN IF Error # NoType /\ p.type = Error
              THEN UnexpectedPacket(p)
              ELSE Raised("Unexpected error.")
         ELSE Returned(p)
    ELSE IF p.type \in SERVER_PACKETS
         THEN Returned(p)
         ELSE Raised("KeyError")

\* the classification of a packet that was read whole
wait_packet(p, Expect, Error) ==
    IF Expect # NoType
    THEN IF p.type # Expect
         THEN IF Error # NoType /\ p.type = Error
              THEN UnexpectedPacket(p)
              ELSE Raised("Unexpected error.")
         ELSE Returned(p)
    ELSE IF p.type \in SERVER_PACKETS
         THEN Returned(p)
         ELSE UnexpectedPacket(p)

(* ---------------- key exchange (lines 83-103) ---------------- *)

\* the challenge the login key encrypts: "%s|%s|%s"
generate_login_key(server_key, user, pass) == <<user, server_key, pass>>

(* ---------------- the session ---------------- *)

\* the byte-level event loop is not running
WireAtRest ==
    /\ frames = <<>>
    /\ rpos = 0
    /\ wpc = "done"
    /\ expect = NoType
    /\ bytes = 0
    /\ data = <<>>
    /\ head = <<>>
    /\ out = <<>>
    /\ packets = <<>>
    /\ invoked = <<>>
    /\ table = {}
    /\ last_io = "none"
    /\ raised = NoError

\* no login key is being made
KeyAtRest ==
    /\ kpc = "done"
    /\ challenge = <<>>
    /\ plain = <<>>
    /\ pad = <<>>
    /\ ci = 0
    /\ crypted = <<>>

Init ==
    /\ pc = "new"
    /\ socket = "none"
    /\ character = None
    /\ characters = <<>>
    /\ assigned = 0
    /\ pending = None
    /\ sent = <<>>
    /\ events = {}
    /\ io_events = <<>>
    /\ handled = <<>>
    /\ call = Call("__init__", 0)
    /\ error = NoError
    /\ recv = NoPacket
    /\ interrupted = FALSE
    /\ state = "Connecting"
    /\ WireAtRest
    /\ KeyAtRest

\* a call ends by raising e: __init__ leaves no object behind, any other
\* call returns control to the caller, who still holds the object
Raise(op, e, st) ==
    /\ error' = e
    /\ state' = st
    /\ pc' = IF op = "__init__" THEN "failed" ELSE "idle"

\* lines 179-183: socket.create_connection
Connect ==
    /\ pc = "new"
    /\ recv' = NoPacket
    /\ \E io \in {"ok", "error", "timeout"} :
         IF io = "ok"
         THEN /\ socket' = "open"
              /\ pc' = "init_seed"
              /\ state' = "AwaitingSeed"
              /\ UNCHANGED error
         ELSE /\ Raise("__init__", IF io = "timeout" THEN TypeError
                        ELSE ChatError("Socket error"), "Closed")
              /\ UNCHANGED socket
    /\ UNCHANGED <<character, characters, assigned, pending, sent, events,
                   io_events, handled, call, interrupted>>
    /\ UNCHANGED <<wirevars, keyvars>>

\* lines 185-195: the seed arrives, the login key is made, the auth packet
\* is written
InitSeed ==
    /\ pc = "init_seed"
    /\ \E rio \in IoOutcomes, wio \in IoOutcomes, p \in ServerPackets :
         /\ recv' = IF rio = "ok" THEN p ELSE NoPacket
         /\ LET r == wait_packet(p, AOSP_SEED, NoType)
                login_key ==
                    generate_login_key(p.server_key, username, password)
            IN  IF rio # "ok"
                THEN /\ Raise("__init__", read_socket(rio), "Closed")
                     /\ UNCHANGED <<sent, character>>
                ELSE IF r.raise = "UnexpectedPacket"
                THEN /\ Raise("__init__",
                              ChatError("Invalid greeting packet"), "Closed")
                     /\ UNCHANGED <<sent, character>>
                ELSE IF r.raise = "ChatError"
                THEN /\ Raise("__init__", ChatError(r.message), "Closed")
                     /\ UNCHANGED <<sent, character>>
                ELSE /\ character' = None
                     /\ IF wio # "ok"
                        THEN /\ Raise("__init__", write_socket(wio), "Closed")
                             /\ UNCHANGED sent
                        ELSE /\ sent' = Append(sent,
                                    ClientPacket(AOCP_AUTH, 0, login_key))
                             /\ pc' = "init_auth"
                             /\ state' = "Authenticating"
                             /\ UNCHANGED error
    /\ UNCHANGED <<socket, characters, assigned, pending, events, io_events,
                   handled, call, interrupted>>
    /\ UNCHANGED <<wirevars, keyvars>>

\* lines 195-197: the reply to the auth packet
InitAuth ==
    /\ pc = "init_auth"
    /\ \E rio \in IoOutcomes, p \in ServerPackets :
         /\ recv' = IF rio = "ok" THEN p ELSE NoPacket
         /\ LET r == wait_packet(p, AOSP_CHARACTERS_LIST, AOSP_AUTH_ERROR)
            IN  IF rio # "ok"
                THEN /\ Raise("__init__", read_socket(rio), "Closed")
                     /\ UNCHANGED <<characters, assigned>>
                ELSE IF r.raise = "UnexpectedPacket"
                THEN /\ Raise("__init__", ChatError(r.packet.message),
                              "AuthFailed")
                     /\ UNCHANGED <<characters, assigned>>
                ELSE IF r.raise = "ChatError"
                THEN /\ Raise("__init__", ChatError(r.message), "Closed")
                     /\ UNCHANGED <<characters, assigned>>
                ELSE /\ characters' = r.packet.characters
                     /\ assigned' = assigned + 1
                     /\ pc' = "idle"
                     /\ state' = "Authenticated"
                     /\ UNCHANGED error
    /\ UNCHANGED <<socket, character, pending, sent, events, io_events,
                   handled, call, interrupted>>
    /\ UNCHANGED <<wirevars, keyvars>>

(* ---------------- login, logout, ping (lines 284-320) ---------------- *)

\* the for loop of login taking every entry for a match
Matches_all(chars, character_id) == 1..Len(chars)

\* the for loop of login: the indices of the entries with the id asked for
Matches(chars, character_id) ==
    { i \in 1..Len(chars) : chars[i].id = character_id }

\* the loop of login without its comparison: it breaks at the first entry
lookup_first(chars, character_id) == chars[1]

\* the entry the loop breaks at: the first one with that id
lookup(chars, character_id) ==
    LET m == Matches(chars, character_id)
    IN  chars[CHOOSE i \in m : \A j \in m : i <= j]

\* lines 284-298: the lookup, then the login packet is written
Login ==
    /\ pc = "idle"
    /\ recv' = NoPacket
    /\ interrupted' = FALSE
    /\ io_events' = <<>>
    /\ events' = {}
    /\ handled' = <<>>
    /\ \E character_id \in 1..MaxCharId, wio \in IoOutcomes :
         /\ call' = Call("login", character_id)
         /\ IF Matches(characters, character_id) = {}
            THEN /\ Raise("login",
                          ChatError("no valid characters to login."), state)
                 /\ UNCHANGED <<sent, pending>>
            ELSE /\ Len(sent) < MaxSent
                 /\ IF wio # "ok"
                    THEN /\ Raise("login", write_socket(wio), "Closed")
                         /\ UNCHANGED <<sent, pending>>
                    ELSE /\ pending' = lookup(characters, character_id)
                         /\ sent' = Append(sent,
                                ClientPacket(AOCP_LOGIN, character_id, <<>>))
                         /\ pc' = "login_wait"
                         /\ state' = "LoggingIn"
                         /\ error' = NoError
    /\ UNCHANGED <<socket, character, characters, assigned>>
    /\ UNCHANGED <<wirevars, keyvars>>

\* lines 298-303: the reply to the login packet
LoginReply ==
    /\ pc = "login_wait"
    /\ \E rio \in IoOutcomes, p \in ServerPackets :
         /\ recv' = IF rio = "ok" THEN p ELSE NoPacket
         /\ LET r == wait_packet(p, AOSP_LOGIN_OK, AOSP_AUTH_ERROR)
            IN  IF rio # "ok"
                THEN /\ Raise("login", read_socket(rio), "Closed")
                     /\ UNCHANGED character
                ELSE IF r.raise = "UnexpectedPacket"
                THEN /\ Raise("login", ChatError(r.packet.message),
                              "AuthFailed")
                     /\ UNCHANGED character
                ELSE IF r.raise = "ChatError"
                THEN /\ Raise("login", ChatError(r.message), "Closed")
                     /\ UNCHANGED character
                ELSE /\ character' = pending
                     /\ pc' = "idle"
                     /\ state' = "LoggedIn"
                     /\ UNCHANGED error
    /\ pending' = None
    /\ UNCHANGED <<socket, characters, assigned, sent, events, io_events,
                   handled, call, interrupted>>
    /\ UNCHANGED <<wirevars, keyvars>>

\* logout unsetting the character list along with the character
Logout_clears_list ==
    /\ pc = "idle"
    /\ recv' = NoPacket
    /\ interrupted' = FALSE
    /\ io_events' = <<>>
    /\ events' = {}
    /\ handled' = <<>>
    /\ call' = Call("logout", 0)
    /\ character' = None
    /\ characters' = <<>>
    /\ error' = NoError
    /\ state' = IF state = "LoggedIn" THEN "LoggedOut" ELSE state
    /\ UNCHANGED <<pc, socket, assigned, pending, sent>>
    /\ UNCHANGED <<wirevars, keyvars>>

\* logout without the assignment of line 313
Logout_keeps_character ==
    /\ pc = "idle"
    /\ recv' = NoPacket
    /\ interrupted' = FALSE
    /\ io_events' = <<>>
    /\ events' = {}
    /\ handled' = <<>>
    /\ call' = Call("logout", 0)
    /\ error' = NoError
    /\ state' = IF state = "LoggedIn" THEN "LoggedOut" ELSE state
    /\ UNCHANGED <<pc, socket, character, characters, assigned, pending,
                   sent>>
    /\ UNCHANGED <<wirevars, keyvars>>

\* lines 305-313
Logout ==
    /\ pc = "idle"
    /\ recv' = NoPacket
    /\ interrupted' = FALSE
    /\ io_events' = <<>>
    /\ events' = {}
    /\ handled' = <<>>
    /\ call' = Call("logout", 0)
    /\ character' = None
    /\ error' = NoError
    /\ state' = IF state = "LoggedIn" THEN "LoggedOut" ELSE state
    /\ UNCHANGED <<pc, socket, characters, assigned, pending, sent>>
    /\ UNCHANGED <<wirevars, keyvars>>

\* lines 315-320 and 268-282: the ping packet is written
Ping ==
    /\ pc = "idle"
    /\ recv' = NoPacket
    /\ interrupted' = FALSE
    /\ io_events' = <<>>
    /\ events' = {}
    /\ handled' = <<>>
    /\ Len(sent) < MaxSent
    /\ call' = Call("ping", 0)
    /\ \E wio \in IoOutcomes :
         IF wio # "ok"
         THEN /\ Raise("ping", write_socket(wio), "Closed")
              /\ UNCHANGED sent
         ELSE /\ sent' = Append(sent, ClientPacket(AOCP_PING, 0, <<>>))
              /\ pc' = "ping_wait"
              /\ error' = NoError
              /\ UNCHANGED state
    /\ UNCHANGED <<socket, character, characters, assigned, pending>>
    /\ UNCHANGED <<wirevars, keyvars>>

\* lines 281-282 and 245-257: the reply to the ping packet
PingReply ==
    /\ pc = "ping_wait"
    /\ \E rio \in IoOutcomes, p \in ServerPackets :
         /\ recv' = IF rio = "ok" THEN p ELSE NoPacket
         /\ LET r == wait_packet(p, AOSP_PING, NoType)
            IN  IF rio # "ok"
                THEN Raise("ping", read_socket(rio), "Closed")
                ELSE IF r.raise = "ChatError"
                THEN Raise("ping", ChatError(r.message), "Closed")
                ELSE IF r.raise = "UnexpectedPacket"
                THEN Raise("ping", UnexpectedPacketError, "Closed")
                ELSE /\ pc' = "idle"
                     /\ UNCHANGED <<error, state>>
    /\ UNCHANGED <<socket, character, characters, assigned, pending, sent,
                   events, io_events, handled, call, interrupted>>
    /\ UNCHANGED <<wirevars, keyvars>>

(* ---------------- the event loop (lines 322-354) ---------------- *)

\* the handler tables the caller may pass to start
EventTables ==
    { {}, {AOSP_PRIVATE_MESSAGE},
      {AOSP_PING, AOSP_PRIVATE_MESSAGE, UNREGISTERED} }

\* lines 322-330: start is called and reaches poll.poll
Start ==
    /\ pc = "idle"
    /\ recv' = NoPacket
    /\ interrupted' = FALSE
    /\ io_events' = <<>>
    /\ \E ev \in EventTables : events' = ev
    /\ call' = Call("start", 0)
    /\ pc' = "poll"
    /\ error' = NoError
    /\ handled' = <<>>
    /\ UNCHANGED <<socket, character, characters, assigned, pending, sent,
                   state>>
    /\ UNCHANGED <<wirevars, keyvars>>

\* the branch of lines 335-349 taken for one event mask
Branch(io_event) ==
    IF io_event = POLLIN THEN "read"
    ELSE IF io_event = POLLHUP THEN "return"
    ELSE IF io_event = POLLERR THEN "return"
    ELSE "none"

\* lines 332-335 and 344-349: poll returns one event for the socket, the
\* only descriptor registered
PollEvent ==
    /\ pc = "poll"
    /\ recv' = NoPacket
    /\ \E io_event \in PollMasks :
         /\ io_events' = <<io_event>>
         /\ pc' = CASE Branch(io_event) = "read" -> "start_read"
                    [] Branch(io_event) = "return" -> "idle"
                    [] OTHER -> "poll"
    /\ UNCHANGED <<socket, character, characters, assigned, pending, sent,
                   events, handled, call, error, interrupted, state>>
    /\ UNCHANGED <<wirevars, keyvars>>

\* lines 332 and 351-352: poll times out and the ping packet is written
PollTimeout ==
    /\ pc = "poll"
    /\ recv' = NoPacket
    /\ Len(sent) < MaxSent
    /\ io_events' = <<>>
    /\ \E wio \in IoOutcomes :
         IF wio # "ok"
         THEN /\ Raise("start", write_socket(wio), "Closed")
              /\ UNCHANGED sent
         ELSE /\ sent' = Append(sent, ClientPacket(AOCP_PING, 0, <<>>))
              /\ pc' = "start_pong"
              /\ UNCHANGED <<error, state>>
    /\ UNCHANGED <<socket, character, characters, assigned, pending, events,
                   handled, call, interrupted>>
    /\ UNCHANGED <<wirevars, keyvars>>

\* lines 336-343: the packet announced by POLLIN is read and dispatched
StartRead ==
    /\ pc = "start_read"
    /\ \E rio \in IoOutcomes, p \in ServerPackets :
         /\ recv' = IF rio = "ok" THEN p ELSE NoPacket
         /\ LET r == wait_packet(p, NoType, NoType)
            IN  IF rio # "ok"
                THEN /\ Raise("start", read_socket(rio), "Closed")
                     /\ UNCHANGED handled
                ELSE IF r.raise = "UnexpectedPacket"
                THEN /\ pc' = "poll"
                     /\ UNCHANGED <<handled, error, state>>
                ELSE IF r.raise = "ChatError"
                THEN /\ Raise("start", ChatError(r.message), "Closed")
                     /\ UNCHANGED handled
                ELSE /\ IF r.packet.type \in events
                        THEN /\ Len(handled) < MaxHandled
                             /\ handled' = Append(handled, r.packet.type)
                        ELSE UNCHANGED handled
                     /\ pc' = "poll"
                     /\ UNCHANGED <<error, state>>
    /\ UNCHANGED <<socket, character, characters, assigned, pending, sent,
                   events, io_events, call, interrupted>>
    /\ UNCHANGED <<wirevars, keyvars>>

\* lines 352, 320 and 245-257: the reply to the keep-alive ping
StartPong ==
    /\ pc = "start_pong"
    /\ \E rio \in IoOutcomes, p \in ServerPackets :
         /\ recv' = IF rio = "ok" THEN p ELSE NoPacket
         /\ LET r == wait_packet(p, AOSP_PING, NoType)
            IN  IF rio # "ok"
                THEN Raise("start", read_socket(rio), "Closed")
                ELSE IF r.raise = "ChatError"
                THEN Raise("start", ChatError(r.message), "Closed")
                ELSE IF r.raise = "UnexpectedPacket"
                THEN Raise("start", UnexpectedPacketError, "Closed")
                ELSE /\ pc' = "poll"
                     /\ UNCHANGED <<error, state>>
    /\ UNCHANGED <<socket, character, characters, assigned, pending, sent,
                   events, io_events, handled, call, interrupted>>
    /\ UNCHANGED <<wirevars, keyvars>>

\* lines 353-354: KeyboardInterrupt anywhere inside the try block
Interrupt ==
    /\ pc \in {"poll", "start_read", "start_pong"}
    /\ pc' = "idle"
    /\ interrupted' = TRUE
    /\ recv' = NoPacket
    /\ UNCHANGED <<socket, character, characters, assigned, pending, sent,
                   events, io_events, handled, call, error, state>>
    /\ UNCHANGED <<wirevars, keyvars>>

Next ==
    \/ Connect
    \/ InitSeed
    \/ InitAuth
    \/ Login
    \/ LoginReply
    \/ Logout
    \/ Ping
    \/ PingReply
    \/ Start
    \/ PollEvent
    \/ PollTimeout
    \/ StartRead
    \/ StartPong
    \/ Interrupt

Spec == Init /\ [][Next]_vars

TypeOK ==
    /\ pc \in {"new", "failed", "init_seed", "init_auth", "idle", "login_wait",
               "ping_wait", "poll", "start_read", "start_pong"}
    /\ socket \in {"none", "open"}
    /\ assigned \in 0..1
    /\ Len(sent) <= MaxSent
    /\ Len(handled) <= MaxHandled

(* ---------------- the event loop, byte by byte ---------------- *)
(* start with __read_socket, __write_socket and wait_packet unfolded: every *)
(* recv and every send is a step, and the socket hands over the server's    *)
(* bytes in chunks of any size.                                             *)

\* server packets the server may send before it stops
MaxFrames == 2
\* keep-alive pings written before poll stops timing out
MaxPings == 1

\* the numeric type of a packet class (Expect.type, the keys of
\* SERVER_PACKETS): the values the classes have in aochat.core.packets
type_id(t) ==
    CASE t = AOSP_PING -> 100
      [] t = AOCP_PING -> 100
      [] t = AOSP_PRIVATE_MESSAGE -> 30
      [] t = UNREGISTERED -> 258

\* the class a numeric type belongs to
type_of(n) ==
    IF n = 100 THEN AOSP_PING
    ELSE IF n = 30 THEN AOSP_PRIVATE_MESSAGE
    ELSE UNREGISTERED

\* the wire format: 2-byte type, 2-byte payload length, payload
frame(n, payload) ==
    << n \div 256, n % 256, Len(payload) \div 256, Len(payload) % 256 >>
    \o payload

Frame(n, payload) == [type |-> n, payload |-> payload]

\* the packets the server chooses from
WireFrames ==
    { Frame(type_id(AOSP_PING), <<>>),
      Frame(type_id(AOSP_PRIVATE_MESSAGE), <<>>),
      Frame(type_id(AOSP_PRIVATE_MESSAGE), <<7, 9>>),
      Frame(type_id(UNREGISTERED), <<7>>) }

\* the bytes of the first n packets of a sequence of packets
RECURSIVE Bytes(_, _)
Bytes(fs, n) ==
    IF n = 0 THEN <<>>
    ELSE Bytes(fs, n - 1) \o frame(fs[n].type, fs[n].payload)

\* everything the server sends
Stream == Bytes(frames, Len(frames))

\* struct.unpack(">2H", head) with the byte order reversed
unpack_2H_little(h) == << h[2] * 256 + h[1], h[4] * 256 + h[3] >>

\* line 242: struct.unpack(">2H", head)
unpack_2H(h) == << h[1] * 256 + h[2], h[3] * 256 + h[4] >>

\* line 214 with the operands exchanged
accumulate_front(d, chunk) == chunk \o d

\* line 214: data = data + chunk
accumulate(d, chunk) == d \o chunk

\* line 232 without the slice
rest_all(d, n) == d

\* line 232: data = data[sent:]
rest(d, n) == SubSeq(d, n + 1, Len(d))

\* the lookup of line 342 taking every type for one with a handler
has_handler_any(tbl, n) == TRUE

\* line 342: packet.type in events
has_handler(tbl, n) == type_of(n) \in tbl

WireInit ==
    /\ frames \in UNION { [1..n -> WireFrames] : n \in 0..MaxFrames }
    /\ table \in EventTables
    /\ rpos = 0
    /\ wpc = "poll"
    /\ expect = NoType
    /\ bytes = 0
    /\ data = <<>>
    /\ head = <<>>
    /\ out = <<>>
    /\ packets = <<>>
    /\ invoked = <<>>
    /\ last_io = "none"
    /\ raised = NoError
    /\ KeyAtRest
    /\ pc = "poll"
    /\ socket = "open"
    /\ character = None
    /\ characters = <<>>
    /\ assigned = 1
    /\ pending = None
    /\ sent = <<>>
    /\ events = {}
    /\ io_events = <<>>
    /\ handled = <<>>
    /\ call = Call("start", 0)
    /\ error = NoError
    /\ recv = NoPacket
    /\ interrupted = FALSE
    /\ state = "Authenticated"

\* wait_packet begins: lines 241 and 199-200
BeginWait(Expect) ==
    /\ expect' = Expect
    /\ wpc' = "head"
    /\ bytes' = 4
    /\ data' = <<>>
    /\ head' = <<>>

\* start ends with the exception e
WRaise(e) ==
    /\ raised' = e
    /\ wpc' = "done"

\* lines 332-349: poll returns one event for the socket
WPollEvent ==
    /\ wpc = "poll"
    /\ last_io' = "none"
    /\ \E io_event \in PollMasks :
         CASE Branch(io_event) = "read" ->
                /\ BeginWait(NoType)
           [] Branch(io_event) = "return" ->
                /\ wpc' = "done"
                /\ UNCHANGED <<expect, bytes, data, head>>
           [] OTHER ->
                UNCHANGED <<wpc, expect, bytes, data, head>>
    /\ UNCHANGED <<frames, rpos, out, packets, invoked, table, raised>>
    /\ UNCHANGED <<vars, keyvars>>

\* lines 332, 351-352, 320, 274-277 and 219: poll times out, the ping packet
\* is packed and __write_socket begins
WPollTimeout ==
    /\ wpc = "poll"
    /\ Len(out) < 4 * MaxPings
    /\ last_io' = "none"
    /\ data' = frame(type_id(AOCP_PING), <<>>)
    /\ bytes' = Len(data')
    /\ wpc' = "send"
    /\ UNCHANGED <<frames, rpos, expect, head, out, packets, invoked, table,
                   raised>>
    /\ UNCHANGED <<vars, keyvars>>

\* lines 221-233 and 281-282: one turn of the loop of __write_socket; send
\* accepts between one and all of the bytes it is given
WSend ==
    /\ wpc = "send"
    /\ last_io' = "ok"
    /\ \E n \in 1..Len(data) :
         /\ out' = out \o SubSeq(data, 1, n)
         /\ IF bytes - n > 0
            THEN /\ data' = rest(data, n)
                 /\ bytes' = bytes - n
                 /\ UNCHANGED <<wpc, expect, head>>
            ELSE BeginWait(AOSP_PING)
    /\ UNCHANGED <<frames, rpos, packets, invoked, table, raised>>
    /\ UNCHANGED <<vars, keyvars>>

\* lines 222-230: send raises, or returns 0
WSendFail ==
    /\ wpc = "send"
    /\ \E o \in IoOutcomes \ {"ok"} :
         /\ last_io' = o
         /\ WRaise(write_socket(o))
    /\ UNCHANGED <<frames, rpos, expect, bytes, data, head, out, packets,
                   invoked, table>>
    /\ UNCHANGED <<vars, keyvars>>

\* lines 245-266 and 336-343: the packet read whole is classified, and in
\* the loop passed to its handler
Classify(n, payload) ==
    LET r == wait_packet(Packet(type_of(n), "", "", <<>>), expect, NoType)
    IN  /\ packets' = Append(packets,
                        [type |-> n, payload |-> payload, expect |-> expect])
        /\ IF r.raise = "ChatError"
           THEN /\ WRaise(ChatError(r.message))
                /\ UNCHANGED invoked
           ELSE IF r.raise = "UnexpectedPacket"
           THEN IF expect = NoType
                THEN /\ wpc' = "poll"
                     /\ UNCHANGED <<invoked, raised>>
                ELSE /\ WRaise(UnexpectedPacketError)
                     /\ UNCHANGED invoked
           ELSE IF expect = NoType /\ has_handler(table, n)
           THEN /\ invoked' = Append(invoked, Len(packets'))
                /\ wpc' = "handler"
                /\ UNCHANGED raised
           ELSE /\ wpc' = "poll"
                /\ UNCHANGED <<invoked, raised>>

\* lines 202-216 and 241-243: one turn of the loop of __read_socket; recv
\* returns between one and bytes of the bytes that have arrived
WRecv ==
    /\ wpc \in {"head", "body"}
    /\ last_io' = "ok"
    /\ \E n \in 1..bytes :
         /\ rpos + n <= Len(Stream)
         /\ rpos' = rpos + n
         /\ LET d == accumulate(data, SubSeq(Stream, rpos + 1, rpos + n))
                h == IF wpc = "head" THEN d ELSE head
                length == unpack_2H(h)[2]
            IN  IF bytes - n > 0
                THEN /\ data' = d
                     /\ bytes' = bytes - n
                     /\ UNCHANGED <<wpc, head, packets, invoked, raised>>
                ELSE IF wpc = "head" /\ length > 0
                THEN /\ head' = d
                     /\ wpc' = "body"
                     /\ bytes' = length
                     /\ data' = <<>>
                     /\ UNCHANGED <<packets, invoked, raised>>
                ELSE /\ head' = h
                     /\ data' = IF wpc = "head" THEN <<>> ELSE d
                     /\ bytes' = 0
                     /\ Classify(unpack_2H(h)[1],
                                 IF wpc = "head" THEN <<>> ELSE d)
    /\ UNCHANGED <<frames, expect, out, table>>
    /\ UNCHANGED <<vars, keyvars>>

\* lines 203-211: recv raises, or returns the empty string
WRecvFail ==
    /\ wpc \in {"head", "body"}
    /\ \E o \in IoOutcomes \ {"ok"} :
         /\ last_io' = o
         /\ WRaise(read_socket(o))
    /\ UNCHANGED <<frames, rpos, expect, bytes, data, head, out, packets,
                   invoked, table>>
    /\ UNCHANGED <<vars, keyvars>>

\* line 343: the handler returns
WHandlerReturn ==
    /\ wpc = "handler"
    /\ wpc' = "poll"
    /\ last_io' = "none"
    /\ UNCHANGED <<frames, rpos, expect, bytes, data, head, out, packets,
                   invoked, table, raised>>
    /\ UNCHANGED <<vars, keyvars>>

\* lines 353-354: KeyboardInterrupt anywhere inside the try block
WInterrupt ==
    /\ wpc \in {"poll", "send", "head", "body", "handler"}
    /\ wpc' = "done"
    /\ last_io' = "interrupt"
    /\ UNCHANGED <<frames, rpos, expect, bytes, data, head, out, packets,
                   invoked, table, raised>>
    /\ UNCHANGED <<vars, keyvars>>

WireNext ==
    \/ WPollEvent
    \/ WPollTimeout
    \/ WSend
    \/ WSendFail
    \/ WRecv
    \/ WRecvFail
    \/ WHandlerReturn
    \/ WInterrupt

SpecWire == WireInit /\ [][WireNext]_wirevars

(* ---------------- the login key, byte by byte (lines 96-134) ---------------- *)
(* generate_login_key and _crypt on strings of bytes. The Diffie-Hellman    *)
(* numbers and the rounds of _tea_encrypt are left out: a block of the      *)
(* cipher is any pair of 32-bit words.                                      *)

\* longest username, server key and password
MaxStr == 3

\* a string of n bytes c
RECURSIVE Repeat(_, _)
Repeat(c, n) == IF n = 0 THEN <<>> ELSE <<c>> \o Repeat(c, n - 1)

\* line 96: "%s|%s|%s" % (username, server_key, password), for a username
\* of u bytes "u", a server key of s bytes "s", a password of p bytes "p"
Challenge(u, s, p) ==
    Repeat(117, u) \o <<124>> \o Repeat(115, s) \o <<124>> \o Repeat(112, p)

\* line 97: the values random.randrange may give the 8 bytes of the nonce
Prefixes == { Repeat(0, 8), Repeat(255, 8) }

\* struct.pack(">I", n) for n < 2^16
pack_I(n) == << 0, 0, n \div 256, n % 256 >>

\* line 99 without the outer remainder
pad_length_unwrapped(length) == 8 - (length % 8)

\* line 99: (8 - length % 8) % 8
pad_length(length) == (8 - (length % 8)) % 8

\* 32-bit words, as 4 bytes each, that _tea_encrypt may return
Words == { <<0, 0, 0, 10>>, <<255, 254, 253, 252>> }

\* socket.htonl on a host that stores the low byte first
htonl(w) == << w[4], w[3], w[2], w[1] >>

HexDigits ==
    << "0", "1", "2", "3", "4", "5", "6", "7",
       "8", "9", "a", "b", "c", "d", "e", "f" >>

\* "%08x" of a 32-bit word
hex08(w) ==
    [k \in 1..8 |->
       LET b == w[(k + 1) \div 2]
       IN  HexDigits[(IF k % 2 = 1 THEN b \div 16 ELSE b % 16) + 1]]

KeyInit ==
    /\ kpc = "challenge"
    /\ challenge \in { Challenge(u, s, p) :
                         u \in 0..MaxStr, s \in 0..MaxStr, p \in 0..MaxStr }
    /\ plain = <<>>
    /\ pad = <<>>
    /\ ci = 0
    /\ crypted = <<>>
    /\ WireAtRest
    /\ pc = "init_seed"
    /\ socket = "open"
    /\ character = None
    /\ characters = <<>>
    /\ assigned = 0
    /\ pending = None
    /\ sent = <<>>
    /\ events = {}
    /\ io_events = <<>>
    /\ handled = <<>>
    /\ call = Call("init", 0)
    /\ error = NoError
    /\ recv = NoPacket
    /\ interrupted = FALSE
    /\ state = "Connecting"

\* lines 97-101: the padding is computed and the plain text put together
MakePlain ==
    /\ kpc = "challenge"
    /\ \E prefix \in Prefixes :
         LET length == 8 + 4 + Len(challenge)
             spaces == Repeat(32, pad_length(length))
         IN  /\ pad' = spaces
             /\ plain' = prefix \o pack_I(Len(challenge)) \o challenge
                           \o spaces
    /\ kpc' = "crypt"
    /\ UNCHANGED <<challenge, ci, crypted>>
    /\ UNCHANGED <<vars, wirevars>>

\* lines 111-122: _crypt checks the length of the plain text
CryptBegin ==
    /\ kpc = "crypt"
    /\ IF Len(plain) % 8 # 0
       THEN /\ kpc' = "error"
            /\ UNCHANGED <<ci, crypted>>
       ELSE /\ kpc' = "loop"
            /\ ci' = 0
            /\ crypted' = <<>>
    /\ UNCHANGED <<challenge, plain, pad>>
    /\ UNCHANGED <<vars, wirevars>>

\* lines 124-132: one block of two words is encrypted and written as hex
CryptBlock ==
    /\ kpc = "loop"
    /\ ci < Len(plain) \div 4
    /\ \E a \in Words, b \in Words :
         crypted' = crypted \o hex08(htonl(a)) \o hex08(htonl(b))
    /\ ci' = ci + 2
    /\ UNCHANGED <<kpc, challenge, plain, pad>>
    /\ UNCHANGED <<vars, wirevars>>

\* lines 124, 134 and 103: the loop ends and the key is returned
CryptReturn ==
    /\ kpc = "loop"
    /\ ~(ci < Len(plain) \div 4)
    /\ kpc' = "done"
    /\ UNCHANGED <<challenge, plain, pad, ci, crypted>>
    /\ UNCHANGED <<vars, wirevars>>

KeyNext ==
    \/ MakePlain
    \/ CryptBegin
    \/ CryptBlock
    \/ CryptReturn

SpecKey == KeyInit /\ [][KeyNext]_keyvars

(* ---------------- properties ---------------- *)

\* the types of the packets written so far
SentTypes(log) == { log[i].type : i \in 1..Len(log) }

\* the step wrote exactly one packet, of the given type
Wrote(type) ==
    /\ Len(sent') = Len(sent) + 1
    /\ sent'[Len(sent')].type = type

\* C1: when the seed, a character list holding id c and login-ok are
\* received in turn, login(c) ends with the session logged in and the active
\* character an entry of the list whose id is c; the auth packet is written
\* only on receipt of the seed and carries the key made from it, and the
\* login packet is written only once the character list is stored.
C1_HappyPath ==
    [][ /\ (pc = "login_wait" /\ recv'.type = AOSP_LOGIN_OK)
             => /\ pc' = "idle"
                /\ error' = NoError
                /\ state' = "LoggedIn"
                /\ character'.id = call.id
                /\ \E i \in 1..Len(characters) : characters[i] = character'
        /\ Wrote(AOCP_AUTH)
             => /\ pc = "init_seed"
                /\ recv'.type = AOSP_SEED
                /\ sent = <<>>
        /\ Wrote(AOCP_LOGIN)
             => /\ pc = "idle"
                /\ assigned = 1
                /\ AOCP_AUTH \in SentTypes(sent)
                /\ \E i \in 1..Len(characters) :
                     characters[i].id = sent'[Len(sent')].id
      ]_vars

\* C1 witness: login(2) has been answered with login-ok on a list that
\* holds id 2 twice, and the first of the two entries is active
C1_Witness ==
    /\ pc = "idle"
    /\ call = Call("login", 2)
    /\ recv.type = AOSP_LOGIN_OK
    /\ state = "LoggedIn"
    /\ Len(characters) = 3
    /\ character = characters[1]
    /\ character.id = 2

\* C2: login(id) with an id that no entry of the stored list has raises
\* before anything is written or read, and leaves the active character alone.
C2_UnknownCharacter ==
    [][ ( /\ pc = "idle"
          /\ call'.op = "login"
          /\ \A i \in 1..Len(characters) : characters[i].id # call'.id )
        => /\ error' = ChatError("no valid characters to login.")
           /\ sent' = sent
           /\ recv' = NoPacket
           /\ pc' = "idle"
           /\ character' = character
           /\ characters' = characters
      ]_vars

\* C2 witness: login(3) has failed on the list of ids 1 and 2 while a
\* character was active, with the auth and one login packet written
C2_Witness ==
    /\ pc = "idle"
    /\ call = Call("login", 3)
    /\ error = ChatError("no valid characters to login.")
    /\ Len(characters) = 2
    /\ character # None
    /\ Len(sent) = 2

\* C3: an auth-error reply to the auth packet makes construction fail with
\* the message of that packet, stores no character list and leaves the
\* connection without any login packet for good; an auth-error reply to
\* login(c) makes login fail with the message of that packet and does not
\* change the active character.
C3_ServerMessage ==
    [][ /\ (pc = "init_auth" /\ recv'.type = AOSP_AUTH_ERROR)
             => /\ pc' = "failed"
                /\ error' = ChatError(recv'.message)
                /\ assigned' = 0
                /\ characters' = <<>>
                /\ AOCP_LOGIN \notin SentTypes(sent')
        /\ pc = "failed" => vars' = vars
        /\ (pc = "login_wait" /\ recv'.type = AOSP_AUTH_ERROR)
             => /\ pc' = "idle"
                /\ error' = ChatError(recv'.message)
                /\ character' = character
      ]_vars

\* C3 witness: construction has failed with the message of the auth-error
\* packet the server answered the auth packet with
C3_Witness ==
    /\ pc = "failed"
    /\ recv = Packet(AOSP_AUTH_ERROR, "", "Wrong password.", <<>>)
    /\ error = ChatError("Wrong password.")
    /\ SentTypes(sent) = {AOCP_AUTH}
    /\ assigned = 0

\* the type a handshake position expects and the error type it designates
Expected(position) ==
    CASE position = "init_seed" -> AOSP_SEED
      [] position = "init_auth" -> AOSP_CHARACTERS_LIST
      [] position = "login_wait" -> AOSP_LOGIN_OK

Designated(position) ==
    CASE position = "init_seed" -> NoType
      [] position = "init_auth" -> AOSP_AUTH_ERROR
      [] position = "login_wait" -> AOSP_AUTH_ERROR

\* C4: in a handshake exchange a packet that is neither of the expected
\* type nor of the designated error type ends the call with the generic
\* error, and nothing of the session advances: no character list is stored,
\* no active character is set, nothing is written.
C4_ProtocolViolation ==
    [][ \A position \in {"init_seed", "init_auth", "login_wait"} :
          ( /\ pc = position
            /\ recv'.type \notin
                 {NoType, Expected(position), Designated(position)} )
          => /\ error' = ChatError("Unexpected error.")
             /\ pc' = IF position = "login_wait" THEN "idle" ELSE "failed"
             /\ character' = character
             /\ characters' = characters
             /\ assigned' = assigned
             /\ sent' = sent
      ]_vars

\* C4 witness: the auth packet was answered with a login-ok packet and
\* construction failed with the generic error
C4_Witness ==
    /\ pc = "failed"
    /\ recv.type = AOSP_LOGIN_OK
    /\ error = ChatError("Unexpected error.")
    /\ SentTypes(sent) = {AOCP_AUTH}
    /\ assigned = 0

\* C5: a character is active only while the session is LoggedIn; none is
\* active before login-ok, after logout, or once a login attempt or a
\* transport operation has failed.
C5_ActiveOnlyWhileLoggedIn ==
    character # None => state = "LoggedIn"

\* C6: the character list is assigned once, from the character-list packet
\* that answers the auth packet, and no later step changes it.
C6_CharactersSetOnce ==
    [][ /\ assigned' # assigned
             => /\ assigned = 0
                /\ assigned' = 1
                /\ pc = "init_auth"
                /\ recv'.type = AOSP_CHARACTERS_LIST
                /\ characters' = recv'.characters
        /\ characters' # characters => assigned' # assigned
        /\ assigned = 1 => characters' = characters
      ]_vars

\* C6 witness: after a login and a logout the list of three entries the
\* server sent is still stored
C6_Witness ==
    /\ assigned = 1
    /\ call.op = "logout"
    /\ AOCP_LOGIN \in SentTypes(sent)
    /\ Len(characters) = 3
    /\ characters[3] = Character(2, "c")

\* poll.poll returned no event in this step of the event loop
TimedOut == pc = "poll" /\ io_events' = <<>> /\ ~interrupted'

\* C7: a poll that times out writes exactly one ping packet (unless the
\* write itself raises); the loop then waits for the pong, passes it to no
\* handler, registered or not, and polls again; an iteration in which poll
\* reported an event writes nothing.
C7_KeepAlive ==
    [][ /\ TimedOut
             => \/ Wrote(AOCP_PING) /\ pc' = "start_pong" /\ error' = NoError
                \/ sent' = sent /\ pc' = "idle" /\ error' # NoError
        /\ pc = "start_pong" => sent' = sent /\ handled' = handled
        /\ (pc = "start_pong" /\ recv'.type = AOSP_PING)
             => pc' = "poll" /\ error' = NoError
        /\ (pc = "poll" /\ ~TimedOut) => sent' = sent
        /\ pc = "start_read" => sent' = sent
      ]_vars

\* C7 witness: the loop is polling again after the pong to its ping, a
\* handler for the pong type is registered and none has been invoked
C7_Witness ==
    /\ pc = "poll"
    /\ recv.type = AOSP_PING
    /\ AOSP_PING \in events
    /\ handled = <<>>
    /\ io_events = <<>>
    /\ sent[Len(sent)].type = AOCP_PING

\* C8: a packet of another type than pong arriving after the keep-alive
\* ping ends start with the generic error; it is passed to no handler and
\* the loop does not go on.
C8_PongViolation ==
    [][ (pc = "start_pong" /\ recv'.type \notin {NoType, AOSP_PING})
        => /\ pc' = "idle"
           /\ error' = ChatError("Unexpected error.")
           /\ ~interrupted'
           /\ handled' = handled
      ]_vars

\* C8 witness: start has ended with the generic error on a private message
\* that arrived in place of the pong, its handler not invoked
C8_Witness ==
    /\ pc = "idle"
    /\ call.op = "start"
    /\ recv.type = AOSP_PRIVATE_MESSAGE
    /\ AOSP_PRIVATE_MESSAGE \in events
    /\ io_events = <<>>
    /\ handled = <<>>
    /\ error = ChatError("Unexpected error.")

\* C9: in the event loop a packet whose type has no entry in the registry
\* is skipped: no handler is invoked, no error is raised, and the loop polls
\* again in the state it polled in before.
C9_UnregisteredSkipped ==
    [][ (pc = "start_read" /\ recv'.type = UNREGISTERED)
        => /\ pc' = "poll"
           /\ error' = NoError
           /\ ~interrupted'
           /\ UNCHANGED <<handled, events, sent, character, characters,
                          call, state, socket>>
      ]_vars

\* C9 witness: the loop is polling again after an unregistered packet for
\* whose type id the handler table has an entry, and after an earlier packet
\* was dispatched
C9_Witness ==
    /\ pc = "poll"
    /\ recv.type = UNREGISTERED
    /\ UNREGISTERED \in events
    /\ handled = <<AOSP_PRIVATE_MESSAGE>>
    /\ error = NoError

\* C10: whenever the mask poll returns includes the hang-up or the error
\* flag, alone or together with readable, start returns.
C10_HangupTerminates ==
    [][ ( /\ pc = "poll"
          /\ ~interrupted'
          /\ io_events' # <<>>
          /\ \/ HasFlag(io_events'[1], POLLHUP)
             \/ HasFlag(io_events'[1], POLLERR) )
        => pc' = "idle"
      ]_vars

\* C11: on every path that ends the session after the socket was opened,
\* the client has closed the socket by the time the failure reaches the
\* caller.
C11_ClosedOnFailure ==
    (pc \in {"failed", "idle"} /\ state \in {"AuthFailed", "Closed"})
        => socket # "open"

\* C16: a KeyboardInterrupt ends start only while it is blocked in poll,
\* never while a packet read or the keep-alive exchange is in flight.
C16_InterruptBetweenPolls ==
    [][ (interrupted' /\ ~interrupted) => pc = "poll" ]_vars

\* C17: once a login was answered with a login-error or a transport
\* operation failed, no later call changes the session state, writes a login
\* packet or sets an active character.
C17_TerminalStates ==
    [][ (state \in {"AuthFailed", "Closed"})
        => /\ state' = state
           /\ ~Wrote(AOCP_LOGIN)
           /\ character' \in {character, None}
      ]_vars

\* C18: logout unsets the active character and does nothing else: nothing
\* is written, nothing is read, the character list and the socket stay as
\* they are, whatever state the session is in.
C18_LogoutFrame ==
    [][ (pc = "idle" /\ call'.op = "logout")
        => /\ character' = None
           /\ error' = NoError
           /\ recv' = NoPacket
           /\ UNCHANGED <<pc, socket, characters, assigned, sent>>
      ]_vars

\* C18 witness: logout was called with a character active after a login,
\* and two packets, the auth and the login packet, are all that was written
C18_Witness ==
    /\ pc = "idle"
    /\ call.op = "logout"
    /\ character = None
    /\ state = "LoggedOut"
    /\ Len(sent) = 2
    /\ sent[2].type = AOCP_LOGIN
    /\ Len(characters) = 3


(* ---------------- properties of the byte-level loop ---------------- *)

\* the offset in the stream at which packet k + 1 begins
Boundary(k) == Len(Bytes(frames, k))

\* the number of bytes the read in progress was asked for
Requested ==
    IF wpc = "head" THEN 4 ELSE Len(frames[Len(packets) + 1].payload)

\* the packets decoded so far, as (type id, payload) pairs
Decoded == [k \in 1..Len(packets) |-> Frame(packets[k].type, packets[k].payload)]

\* C13: __read_socket(n) collects exactly the next n bytes of the stream in
\* order however the socket splits them into non-empty chunks, it never holds
\* more than n bytes, and the (type id, payload) packets decoded from the
\* stream are the packets the server sent, whatever the chunking.
C13_ReadExact ==
    /\ wpc \in {"head", "body"} =>
         /\ Len(data) <= rpos
         /\ data = SubSeq(Stream, rpos - Len(data) + 1, rpos)
         /\ bytes > 0
         /\ Len(data) + bytes = Requested
    /\ Len(packets) <= Len(frames)
    /\ Decoded = SubSeq(frames, 1, Len(packets))

\* a packet with a payload has been decoded and the payload of the next one
\* is half read: one byte has arrived, one is still to come
C13_Witness ==
    /\ wpc = "body"
    /\ Len(data) = 1
    /\ bytes = 1
    /\ Len(packets) = 1
    /\ packets[1].payload = <<7, 9>>

\* C14: __write_socket returns only after the socket has accepted every byte
\* of the data, each once and in order, whatever non-zero counts send
\* returns; a send that accepts 0 bytes raises "Connection broken." and
\* nothing more is written.
C14_WriteAll ==
    [][ (wpc = "send") =>
          /\ (last_io' = "ok") =>
               /\ Len(out') > Len(out)
               /\ IF wpc' = "send"
                  THEN /\ out' \o data' = out \o data
                       /\ data' # <<>>
                       /\ bytes' = Len(data')
                  ELSE /\ out' = out \o data
                       /\ wpc' = "head"
                       /\ expect' = AOSP_PING
          /\ (last_io' = "broken") =>
               /\ raised' = ChatError("Connection broken.")
               /\ wpc' = "done"
               /\ out' = out
      ]_wirevars

\* three bytes of the ping have been accepted in partial sends, one is left
C14_Witness ==
    /\ wpc = "send"
    /\ Len(out) = 3
    /\ data = <<0>>
    /\ bytes = 1

\* C15: a recv or send that times out ends the call with the chat error that
\* says the connection timed out.
C15_TimeoutError ==
    (wpc = "done" /\ last_io = "timeout")
        => raised = ChatError("Connection timed out.")

C12_ArrivalOrder ==
    /\ \A k \in 1..Len(packets) : packets[k].type = frames[k].type
    /\ \A i, j \in 1..Len(invoked) : i < j => invoked[i] < invoked[j]
    /\ { invoked[i] : i \in 1..Len(invoked) }
         = { k \in 1..Len(packets) :
               /\ packets[k].expect = NoType
               /\ type_of(frames[k].type) \in SERVER_PACKETS
               /\ type_of(frames[k].type) \in table }
    /\ (wpc = "handler") =>
         /\ invoked # <<>>
         /\ invoked[Len(invoked)] = Len(packets)
         /\ rpos = Boundary(Len(packets))

\* the handler of the second packet runs after the handler of the first
C12_Witness ==
    /\ wpc = "handler"
    /\ invoked = <<1, 2>>
    /\ frames[1] # frames[2]


(* ---------------- properties of the login key ---------------- *)

\* C19: for every username, server key and password the challenge has at
\* least 2 bytes, the plain text is the 8-byte nonce, the 4-byte length, the
\* challenge and 0 to 7 spaces, its length is a multiple of 8, the length
\* check of _crypt never fails, and the cipher text has 16 hex digits for
\* every 8 bytes of plain text.
C19_BlockPadding ==
    /\ Len(challenge) >= 2
    /\ kpc # "error"
    /\ (kpc \in {"crypt", "loop", "done"}) =>
         /\ Len(pad) \in 0..7
         /\ \A k \in 1..Len(pad) : pad[k] = 32
         /\ Len(plain) = 8 + 4 + Len(challenge) + Len(pad)
         /\ SubSeq(plain, 13, 12 + Len(challenge)) = challenge
         /\ Len(plain) % 8 = 0
    /\ (kpc = "loop") => Len(crypted) = 16 * (ci \div 2)
    /\ (kpc = "done") =>
         /\ Len(crypted) = 16 * (Len(plain) \div 8)
         /\ \A k \in 1..Len(crypted) :
              \E d \in 1..16 : crypted[k] = HexDigits[d]

\* a challenge of 5 bytes, padded with 7 spaces to 3 blocks, is encrypted
C19_Witness ==
    /\ kpc = "done"
    /\ Len(challenge) = 5
    /\ Len(pad) = 7
    /\ Len(crypted) = 48

====
